---------------------------- MODULE Spec2Model ----------------------------
(***************************************************************************)
(* A model of entities/storobj/storage_object.go: the version-1 binary     *)
(* frame of a stored object (MarshalBinary), its full and partial decoders,*)
(* and the bulk materializer ObjectsByDocID.                               *)
(*                                                                         *)
(* Bytes are integers 0..255 and a blob is a sequence of bytes.  A float32 *)
(* is modelled by its IEEE-754 bit pattern, an integer.  TLC's integers    *)
(* are 32-bit signed, so bit patterns, doc ids and timestamps are drawn    *)
(* below 2^31; uint16 arithmetic is reduced modulo 2^16 where the source   *)
(* computes in uint16.                                                     *)
(***************************************************************************)
EXTENDS Integers, Sequences, FiniteSets, TLC

VARIABLES
    obj,        \* codec: the object handed to MarshalBinary, vectors by length
    enc,        \* codec: what MarshalBinary returned
    data,       \* codec: the blob handed to the decoders, as a cut and a version byte
    dataKind,   \* codec: "none", "frame" (as encoded), "prefix" (cut), "badver"
    res,        \* codec: what the last decoder call returned
    ids,        \* bulk: the ids argument of ObjectsByDocID
    bucket,     \* bulk: what the bucket holds for each doc id
    procs,      \* bulk: runtime.GOMAXPROCS(0)
    pc,         \* bulk: position of the calling goroutine
    tasks,      \* bulk: the chunk tasks dispatched through the error group
    out,        \* bulk: the shared output slice of objectsByDocIDParallel
    writes,     \* bulk: history, per index the tasks that wrote it and read its id
    eg,         \* bulk: the error group (its recorded error, failure history)
    bufPool,    \* bulk: the buffers in the process-wide scratch buffer pool
    ret         \* bulk: what ObjectsByDocID returned

codecVars == <<obj, enc, data, dataKind, res>>
bulkVars  == <<ids, bucket, procs, pc, tasks, out, writes, eg, bufPool, ret>>
vars      == <<obj, enc, data, dataKind, res,
               ids, bucket, procs, pc, tasks, out, writes, eg, bufPool, ret>>

-----------------------------------------------------------------------------
(* Integer widths and little-endian byte order (encoding/binary).          *)

Pow2_16 == 2^16

\* math.MaxUint16, the value of maxVectorLength and maxClassNameLength
maxVectorLength == 65535

maxClassNameLength == 65535

\* a function over 1..n as a sequence value
AsSeq(f) == f \o <<>>

\* conversion to uint16: the value modulo 2^16
Uint16(x) == x % Pow2_16

Pow256(k) == CASE k = 0 -> 1 [] k = 1 -> 256 [] k = 2 -> 65536 [] OTHER -> 16777216

\* byte k (0 = least significant) of a value below 2^31
ByteOf(x, k) == IF k > 3 THEN 0 ELSE (x \div Pow256(k)) % 256

\* binary.LittleEndian.PutUint16 / PutUint32 / PutUint64
PutUint16(x) == <<ByteOf(x, 0), ByteOf(x, 1)>>

PutUint32(x) == <<ByteOf(x, 0), ByteOf(x, 1), ByteOf(x, 2), ByteOf(x, 3)>>

PutUint64(x) == <<ByteOf(x, 0), ByteOf(x, 1), ByteOf(x, 2), ByteOf(x, 3), 0, 0, 0, 0>>

\* binary.LittleEndian.Uint16 / Uint32 / Uint64 of the bytes at 0-based offset p
Uint16At(d, p) == d[p + 1] + 256 * d[p + 2]

Uint32At(d, p) == d[p + 1] + 256 * d[p + 2] + 65536 * d[p + 3] + 16777216 * d[p + 4]

\* values of 2^31 and more are not representable: reported as -1
Uint64At(d, p) ==
    IF d[p + 5] = 0 /\ d[p + 6] = 0 /\ d[p + 7] = 0 /\ d[p + 8] = 0 /\ d[p + 4] < 128
    THEN Uint32At(d, p) ELSE -1

\* the bytes d[p : p+n] (0-based, half open)
Slice(d, p, n) == SubSeq(d, p + 1, p + n)

\* the float32 vector v as 4*len(v) bytes: rw.WriteUint32(math.Float32bits(v[j]))
VectorBytes(v) ==
    AsSeq([q \in 1..(4 * Len(v)) |-> ByteOf(v[((q - 1) \div 4) + 1], (q - 1) % 4)])

\* a decoder that reads each element with ReadUint16 instead of ReadUint32
FloatsAt_Uint16(d, p, n) == AsSeq([j \in 1..n |-> Uint16At(d, p + 4 * (j - 1))])

\* n float32 values read from d at 0-based offset p
FloatsAt(d, p, n) == AsSeq([j \in 1..n |-> Uint32At(d, p + 4 * (j - 1))])

-----------------------------------------------------------------------------
(* encoding/json on the documents the model uses.  A JSON value is named   *)
(* by a tag; JsonText is the text json.Marshal produces for it.            *)

JsonVals ==
    {"null", "emptyObj", "objA1", "objB2",
     "objAnullB2", "objAnullBref", "objArefBnull", "objAref", "objBref"}

\* the members of the object a tag names, in the order json.Marshal writes
\* them (sorted by key): <<key, value>> with value "1", "2", "null" (a nil
\* interface) or "ref" (a one-element beacon list)
JsonEntries(v) ==
    CASE v = "objA1"        -> << <<"a", "1">> >>
      [] v = "objB2"        -> << <<"b", "2">> >>
      [] v = "objAnullB2"   -> << <<"a", "null">>, <<"b", "2">> >>
      [] v = "objAnullBref" -> << <<"a", "null">>, <<"b", "ref">> >>
      [] v = "objArefBnull" -> << <<"a", "ref">>, <<"b", "null">> >>
      [] v = "objAref"      -> << <<"a", "ref">> >>
      [] v = "objBref"      -> << <<"b", "ref">> >>
      [] OTHER              -> << >>

\* "key":value as json.Marshal writes a member
MemberText(e) ==
    <<34>> \o (IF e[1] = "a" THEN <<97>> ELSE <<98>>) \o <<34, 58>>
    \o (CASE e[2] = "1"    -> <<49>>
          [] e[2] = "2"    -> <<50>>
          [] e[2] = "null" -> <<110, 117, 108, 108>>
          [] e[2] = "ref"  ->                               \* [{"beacon":"x"}]
               <<91, 123, 34, 98, 101, 97, 99, 111, 110, 34, 58, 34, 120, 34, 125, 93>>)

RECURSIVE MembersText(_)
MembersText(es) ==
    IF es = <<>> THEN <<>>
    ELSE MemberText(Head(es))
         \o (IF Tail(es) = <<>> THEN <<>> ELSE <<44>>) \o MembersText(Tail(es))

JsonText(v) ==
    CASE v = "null"     -> <<110, 117, 108, 108>>                 \* null
      [] v = "emptyObj" -> <<123, 125>>                           \* {}
      [] v = "objA1"    -> <<123, 34, 97, 34, 58, 49, 125>>       \* {"a":1}
      [] v = "objB2"    -> <<123, 34, 98, 34, 58, 50, 125>>       \* {"b":2}
      [] OTHER          -> <<123>> \o MembersText(JsonEntries(v)) \o <<125>>

\* a map[string]interface{} of the model: a function from keys to values
EmptyMap == [k \in {} |-> ""]

MapOf(es) == [k \in {es[i][1] : i \in DOMAIN es} |-> es[CHOOSE i \in DOMAIN es : es[i][1] = k][2]]

\* the tag of the object whose members are those of the map m
TagOf(m) == CHOOSE v \in JsonVals : v # "null" /\ MapOf(JsonEntries(v)) = m

\* json.Marshal: never fails on these values
JsonMarshal(v) == JsonText(v)

\* json.Unmarshal: the value whose text b is, an error for any other bytes
\* (the empty input and every cut text are malformed)
JsonUnmarshal(b) ==
    IF \E v \in JsonVals : JsonText(v) = b
    THEN [err |-> FALSE, v |-> CHOOSE v \in JsonVals : JsonText(v) = b]
    ELSE [err |-> TRUE, v |-> "null"]

-----------------------------------------------------------------------------
(* github.com/google/uuid.  An id is its textual form and the 16 bytes it  *)
(* denotes: "canonical" is the lower-case 8-4-4-4-12 form uuid.String      *)
(* prints, "upper" an upper-case spelling uuid.Parse also accepts,         *)
(* "invalid" a string that is no UUID.                                     *)

UuidBytesA == <<17, 17, 17, 17, 17, 17, 17, 17, 17, 17, 17, 17, 17, 17, 17, 17>>

UuidBytesB == <<171, 205, 239, 1, 35, 69, 103, 137, 171, 205, 239, 1, 35, 69, 103, 137>>

NoUuid == [form |-> "empty", bytes |-> <<>>]

\* uuid.Parse(s) followed by MarshalBinary
UuidParse(id) ==
    IF id.form \in {"canonical", "upper"}
    THEN [err |-> FALSE, bytes |-> id.bytes]
    ELSE [err |-> TRUE, bytes |-> <<>>]

\* uuid.FromBytes(b) followed by String(): fails unless len(b) = 16
UuidFromBytes(b) ==
    IF Len(b) = 16
    THEN [err |-> FALSE, id |-> [form |-> "canonical", bytes |-> b]]
    ELSE [err |-> TRUE, id |-> NoUuid]

-----------------------------------------------------------------------------
(* storobj.Object.  Vectors and the embedded model's Vector and Vectors    *)
(* carry whether the Go value is nil.                                      *)

NilVectors == [nil |-> TRUE, m |-> <<>>]

NilVector == [nil |-> TRUE, v |-> <<>>]

\* &Object{}: the zero value the decoders start from
ZeroObject ==
    [MarshallerVersion |-> 0, DocID |-> 0, ID |-> NoUuid, Class |-> <<>>,
     CreationTimeUnix |-> 0, LastUpdateTimeUnix |-> 0,
     Properties |-> "null", Additional |-> "null", VectorWeights |-> "null",
     Vector |-> NilVector, VectorLen |-> 0, Vectors |-> NilVectors,
     ObjectVector |-> NilVector, ObjectVectors |-> NilVectors]

\* msgpack (vmihailenco/msgpack/v5) of a map[string]uint32 with at most 15
\* keys of at most 31 bytes: fixmap header, then per key a fixstr and a
\* uint32 (0xce, big endian), in the order ord the map iteration takes
RECURSIVE MsgpackEntries(_, _)
MsgpackEntries(offsets, ord) ==
    IF ord = <<>> THEN <<>>
    ELSE LET name == Head(ord)
             off  == offsets[name]
         IN  <<160 + Len(name)>> \o name
             \o <<206, ByteOf(off, 3), ByteOf(off, 2), ByteOf(off, 1), ByteOf(off, 0)>>
             \o MsgpackEntries(offsets, Tail(ord))

MsgpackMarshal(offsets, ord) == <<128 + Len(ord)>> \o MsgpackEntries(offsets, ord)

\* msgpack.Unmarshal into map[string]uint32: n entries from 0-based offset p
RECURSIVE MsgpackDecodeEntries(_, _, _)
MsgpackDecodeEntries(b, p, n) ==
    IF n = 0 THEN [err |-> p # Len(b), m |-> <<>>]
    ELSE IF p + 1 > Len(b) \/ b[p + 1] < 160 \/ b[p + 1] > 191
    THEN [err |-> TRUE, m |-> <<>>]
    ELSE LET klen == b[p + 1] - 160
             vpos == p + 1 + klen
         IN  IF vpos + 5 > Len(b) \/ b[vpos + 1] # 206 \/ b[vpos + 2] > 127
             THEN [err |-> TRUE, m |-> <<>>]
             ELSE LET name == Slice(b, p + 1, klen)
                      off  == 16777216 * b[vpos + 2] + 65536 * b[vpos + 3]
                              + 256 * b[vpos + 4] + b[vpos + 5]
                      rest == MsgpackDecodeEntries(b, vpos + 5, n - 1)
                  IN  [err |-> rest.err,
                       m   |-> [k \in DOMAIN rest.m \cup {name} |->
                                  IF k \in DOMAIN rest.m THEN rest.m[k] ELSE off]]

MsgpackUnmarshal(b) ==
    IF Len(b) = 0 \/ b[1] < 128 \/ b[1] > 143
    THEN [err |-> TRUE, m |-> <<>>]
    ELSE MsgpackDecodeEntries(b, 1, b[1] - 128)

-----------------------------------------------------------------------------
(* MarshalBinary.  ord is the order in which `for name, vec := range       *)
(* ko.Vectors` visits the map, mpOrd the order in which msgpack.Marshal    *)
(* visits offsetsMap.                                                      *)

\* the value MarshalBinary returns: the error ("" for nil) and the buffer
MarshalError(e) == [err |-> e, nil |-> TRUE, buf |-> <<>>]

MarshalOk(b) == [err |-> "", nil |-> FALSE, buf |-> b]

\* targetVectorsSegmentLength after the loop has visited the names of ord
RECURSIVE SegmentLength(_, _)
SegmentLength(m, ord) ==
    IF ord = <<>> THEN 0
    ELSE 2 + 4 * Len(m[Head(ord)]) + SegmentLength(m, Tail(ord))

\* an encoder that records the offset after advancing the segment length
OffsetsMap_AfterAdvance(m, ord) ==
    [name \in {ord[i] : i \in DOMAIN ord} |->
        LET i == CHOOSE j \in DOMAIN ord : ord[j] = name
        IN  SegmentLength(m, SubSeq(ord, 1, i))]

\* offsetsMap[name] = the segment length when the loop reached name
OffsetsMap(m, ord) ==
    [name \in {ord[i] : i \in DOMAIN ord} |->
        LET i == CHOOSE j \in DOMAIN ord : ord[j] = name
        IN  SegmentLength(m, SubSeq(ord, 1, i - 1))]

\* the segment as written: for each name of targetVectorsOffsetOrder the
\* uint16 length and the float32 bits
RECURSIVE SegmentBytes(_, _)
SegmentBytes(m, ord) ==
    IF ord = <<>> THEN <<>>
    ELSE PutUint16(Uint16(Len(m[Head(ord)]))) \o VectorBytes(m[Head(ord)])
         \o SegmentBytes(m, Tail(ord))

\* the fixed prefix: version, doc id, kind, uuid, create time, update time
HeaderBytes(ko, idBytes) ==
    <<ko.MarshallerVersion>> \o PutUint64(ko.DocID) \o <<1>> \o idBytes
    \o PutUint64(ko.CreationTimeUnix) \o PutUint64(ko.LastUpdateTimeUnix)

\* a size check that lets one element too many through
VectorTooLong_OffByOne(vec) == Len(vec) > maxVectorLength + 1

\* the size check of the primary vector and of every named vector
VectorTooLong(vec) == Len(vec) > maxVectorLength

ClassNameTooLong(className) == Len(className) > maxClassNameLength

\* a buffer allocated four bytes too long
TotalBufferLength_Padded(vectorLength, classNameLength, schemaLength, metaLength, vectorWeightsLength, offsetsLength, segmentLength) ==
    46 + 2 + vectorLength * 4 + 2 + classNameLength + 4 + schemaLength + 4 + metaLength
    + 4 + vectorWeightsLength + 4 + offsetsLength + 4 + segmentLength

\* totalBufferLength
TotalBufferLength(vectorLength, classNameLength, schemaLength, metaLength, vectorWeightsLength, offsetsLength, segmentLength) ==
    1 + 8 + 1 + 16 + 8 + 8
    + 2 + vectorLength * 4
    + 2 + classNameLength
    + 4 + schemaLength
    + 4 + metaLength
    + 4 + vectorWeightsLength
    + 4 + offsetsLength
    + 4 + segmentLength

\* everything the ReadWriter writes, in order
FrameBytes(ko, idBytes, schema, meta, vectorWeights, offsets, ord) ==
    HeaderBytes(ko, idBytes)
    \o PutUint16(Uint16(Len(ko.Vector.v))) \o VectorBytes(ko.Vector.v)
    \o PutUint16(Uint16(Len(ko.Class))) \o ko.Class
    \o PutUint32(Len(schema)) \o schema
    \o PutUint32(Len(meta)) \o meta
    \o PutUint32(Len(vectorWeights)) \o vectorWeights
    \o PutUint32(Len(offsets)) \o offsets
    \o PutUint32(SegmentLength(ko.Vectors.m, ord)) \o SegmentBytes(ko.Vectors.m, ord)

MarshalBinary(ko, ord, mpOrd) ==
    IF ko.MarshallerVersion # 1 THEN MarshalError("unsupported marshaller version")
    ELSE IF UuidParse(ko.ID).err THEN MarshalError("invalid uuid")
    ELSE IF VectorTooLong(ko.Vector.v) THEN MarshalError("max length exceeded: vector")
    ELSE IF ClassNameTooLong(ko.Class) THEN MarshalError("max length exceeded: className")
    ELSE IF \E i \in DOMAIN ord : VectorTooLong(ko.Vectors.m[ord[i]])
    THEN MarshalError("max length exceeded: vector")
    ELSE
      LET idBytes       == UuidParse(ko.ID).bytes
          schema        == JsonMarshal(ko.Properties)
          meta          == JsonMarshal(ko.Additional)
          vectorWeights == JsonMarshal(ko.VectorWeights)
          offsets       == IF Len(ord) > 0
                           THEN MsgpackMarshal(OffsetsMap(ko.Vectors.m, ord), mpOrd)
                           ELSE <<>>
          total         == TotalBufferLength(Len(ko.Vector.v), Len(ko.Class),
                               Len(schema), Len(meta), Len(vectorWeights),
                               Len(offsets), SegmentLength(ko.Vectors.m, ord))
          written       == FrameBytes(ko, idBytes, schema, meta, vectorWeights,
                                      offsets, ord)
      IN  IF Len(written) > total
          THEN [err |-> "write past the end of the buffer", nil |-> FALSE,
                buf |-> SubSeq(written, 1, total)]
          ELSE MarshalOk(written \o AsSeq([i \in 1..(total - Len(written)) |-> 0]))

-----------------------------------------------------------------------------
(* The decoders.  A call returns a record: status "ok" or the failure,     *)
(* and the values returned with it.  "panic" is a Go run-time panic        *)
(* (index or slice bounds out of range).                                   *)

Result(status) ==
    [status |-> status, hasObj |-> FALSE, obj |-> ZeroObject,
     docID |-> 0, updateTime |-> 0, vec |-> NilVector, parsed |-> 0,
     props |-> EmptyMap]

ObjectResult(ko, nParse) == [Result("ok") EXCEPT !.hasObj = TRUE, !.obj = ko, !.parsed = nParse]

\* errors.Errorf("unsupported binary marshaller version %d", version)
UnsupportedVersion == Result("unsupported_version")

\* what a read of the byteops cursor past the end of its buffer yields
CursorOOB == Result("truncated")

\* an index or slice expression of the source out of range
IndexPanic == Result("panic")

\* the bytes d[p : p+n] lie inside d
Has(d, p, n) == p + n <= Len(d)

\* rw.MoveBufferPositionForward(uint64(vecLen * 4)) with vecLen a uint16:
\* the product is computed in uint16
SkipUint16Times4(vecLen) == Uint16(vecLen * 4)

FromBinaryUUIDOnly(d) ==
    IF ~Has(d, 0, 1) THEN CursorOOB
    ELSE IF d[1] # 1 THEN UnsupportedVersion
    ELSE IF ~Has(d, 0, 44) THEN CursorOOB
    ELSE
      LET docID  == Uint64At(d, 1)
          uuidR  == UuidFromBytes(Slice(d, 10, 16))
          vecLen == Uint16At(d, 42)
          p      == 44 + SkipUint16Times4(vecLen)
      IN  IF uuidR.err THEN Result("error")
          ELSE IF ~Has(d, p, 2) THEN CursorOOB
          ELSE IF ~Has(d, p + 2, Uint16At(d, p)) THEN CursorOOB
          ELSE ObjectResult([ZeroObject EXCEPT
                   !.MarshallerVersion = 1,
                   !.DocID = docID,
                   !.ID = uuidR.id,
                   !.Class = Slice(d, p + 2, Uint16At(d, p))], 0)

\* a decoder that reads the named-vector section whatever is left
BytesRemain_Always(d, p0) == TRUE

\* rw.Position < uint64(len(rw.Buffer))
BytesRemain(d, p0) == p0 < Len(d)

\* unmarshalTargetVectors with the cursor at 0-based position p0
unmarshalTargetVectors(d, p0) ==
    IF ~BytesRemain(d, p0) THEN [status |-> "ok", vectors |-> NilVectors]
    ELSE IF ~Has(d, p0, 4) THEN [status |-> "truncated", vectors |-> NilVectors]
    ELSE
      LET offLen == Uint32At(d, p0)
      IN  IF ~Has(d, p0 + 4, offLen + 4)
          THEN [status |-> "truncated", vectors |-> NilVectors]
          ELSE
            LET targetVectorsOffsets == Slice(d, p0 + 4, offLen)
                pos                  == p0 + 4 + offLen + 4
                tv                   == MsgpackUnmarshal(targetVectorsOffsets)
                FitsAt(name) ==
                    /\ Has(d, pos + tv.m[name], 2)
                    /\ Has(d, pos + tv.m[name] + 2, 4 * Uint16At(d, pos + tv.m[name]))
            IN  IF offLen = 0 THEN [status |-> "ok", vectors |-> NilVectors]
                ELSE IF tv.err THEN [status |-> "error", vectors |-> NilVectors]
                ELSE IF \E name \in DOMAIN tv.m : ~FitsAt(name)
                THEN [status |-> "truncated", vectors |-> NilVectors]
                ELSE [status  |-> "ok",
                      vectors |-> [nil |-> FALSE,
                                   m   |-> [name \in DOMAIN tv.m |->
                                              FloatsAt(d, pos + tv.m[name] + 2,
                                                       Uint16At(d, pos + tv.m[name]))]]]

\* (*properties)[aggregationProperties[idx]] = val
PutKey(m, key, val) == [k \in DOMAIN m \cup {key} |-> IF k = key THEN val ELSE m[k]]

\* the callback UnmarshalProperties hands to jsonparser.EachKey, called for
\* the member key: value with acc = [err |-> returnError # nil, m |-> *properties]
EachKeyCallback(acc, key, value) ==
    CASE value \in {"1", "2"} ->
           \* Number: parseValues succeeds, returnError is left as it is
           [acc EXCEPT !.m = PutKey(@, key, value)]
      [] value = "ref" ->
           \* Array with a beacon: returnError is assigned the result of
           \* jsonparser.ArrayEach, nil for a well-formed array
           [err |-> FALSE, m |-> PutKey(acc.m, key, value)]
      [] OTHER ->
           \* Null: "unknown data type"
           [acc EXCEPT !.err = TRUE]

\* jsonparser.EachKey: the members in document order, the callback for those
\* whose key is among the paths
RECURSIVE EachKey(_, _, _)
EachKey(es, acc, propStrings) ==
    IF es = <<>> THEN acc
    ELSE EachKey(Tail(es),
                 IF Head(es)[1] \in propStrings
                 THEN EachKeyCallback(acc, Head(es)[1], Head(es)[2])
                 ELSE acc,
                 propStrings)

\* UnmarshalProperties(data, properties, aggregationProperties, propStrings):
\* properties is the caller's map, propStrings the set of requested names;
\* returns whether the error is non-nil and the map after the call
UnmarshalProperties(d, properties, propStrings) ==
    LET doc == JsonUnmarshal(d)
    IN  EachKey(IF doc.err THEN <<>> ELSE JsonEntries(doc.v),
                [err |-> FALSE, m |-> properties], propStrings)

\* enrichSchemaTypes(returnProps, false): coerces values in place
enrichSchemaTypes(props) == [err |-> FALSE, v |-> props]

\* parseObject: properties = [nil |-> BOOLEAN, names |-> set] is the
\* *PropertyExtraction.  Returns the error flag and the new ko.
parseObject(ko, uuid, create, update, className, propsB, additionalB, vectorWeightsB, properties, propLength) ==
    LET propsR == IF properties.nil \/ propLength = 0
                  THEN JsonUnmarshal(propsB)
                  ELSE IF Len(propsB) >= propLength
                  THEN LET r == UnmarshalProperties(SubSeq(propsB, 1, propLength),
                                                    EmptyMap, properties.names)
                       IN  [err |-> r.err, v |-> IF r.err THEN "null" ELSE TagOf(r.m)]
                  ELSE [err |-> FALSE, v |-> "null"]
        enrich == enrichSchemaTypes(propsR.v)
        addR   == IF Len(additionalB) > 0 THEN JsonUnmarshal(additionalB)
                  ELSE [err |-> FALSE, v |-> "null"]
        vwR    == JsonUnmarshal(vectorWeightsB)
    IN  IF propsR.err \/ enrich.err \/ addR.err \/ vwR.err
        THEN [err |-> TRUE, ko |-> ko]
        ELSE [err |-> FALSE,
              ko  |-> [ko EXCEPT
                         !.Class = className,
                         !.CreationTimeUnix = create,
                         !.LastUpdateTimeUnix = update,
                         !.ID = uuid,
                         !.Properties = enrich.v,
                         !.VectorWeights = vwR.v,
                         !.Additional = addR.v,
                         !.ObjectVector = NilVector,
                         !.ObjectVectors = NilVectors]]

\* the positions of the length fields of the regions that follow a primary
\* vector of n elements: class name, properties, additional, vector weights,
\* each read from d by the cursor
ClassPos(n) == 44 + 4 * n

PropsPos(d, n) == ClassPos(n) + 2 + Uint16At(d, ClassPos(n))

MetaPos(d, n) == PropsPos(d, n) + 4 + Uint32At(d, PropsPos(d, n))

WeightsPos(d, n) == MetaPos(d, n) + 4 + Uint32At(d, MetaPos(d, n))

TargetVectorsPos(d, n) == WeightsPos(d, n) + 4 + Uint32At(d, WeightsPos(d, n))


HasClassLen(d, n) == Has(d, ClassPos(n), 2)

HasPropsLen(d, n) == HasClassLen(d, n) /\ Has(d, PropsPos(d, n), 4)

HasMetaLen(d, n) == HasPropsLen(d, n) /\ Has(d, MetaPos(d, n), 4)

HasWeightsLen(d, n) == HasMetaLen(d, n) /\ Has(d, WeightsPos(d, n), 4)

\* every read up to and including the vector weights body lies inside d
RegionsFit(d, n) ==
    HasWeightsLen(d, n) /\ Has(d, WeightsPos(d, n) + 4, Uint32At(d, WeightsPos(d, n)))

ClassBytes(d, n) == Slice(d, ClassPos(n) + 2, Uint16At(d, ClassPos(n)))

PropsBytes(d, n) == Slice(d, PropsPos(d, n) + 4, Uint32At(d, PropsPos(d, n)))

MetaBytes(d, n) == Slice(d, MetaPos(d, n) + 4, Uint32At(d, MetaPos(d, n)))

WeightsBytes(d, n) == Slice(d, WeightsPos(d, n) + 4, Uint32At(d, WeightsPos(d, n)))

\* a decoder that enriches every object
NeedsParse_Always(props, meta, vectorWeights) == TRUE

\* the "enrichment" condition of FromBinaryOptional
NeedsParse(props, meta, vectorWeights) ==
    \/ Len(props) > 0
    \/ Len(meta) > 0
    \/ /\ Len(vectorWeights) > 0
       /\ ~(Len(vectorWeights) = 4 /\ vectorWeights = <<110, 117, 108, 108>>)

\* addProp = [Vector, NoProps, Meta : BOOLEAN, Vectors : set of names], Meta
\* standing for addProp.Classification || len(addProp.ModuleParams) > 0
FromBinaryOptional(d, addProp, properties) ==
    IF ~Has(d, 0, 1) THEN CursorOOB
    ELSE IF d[1] # 1 THEN UnsupportedVersion
    ELSE IF ~Has(d, 0, 44) THEN CursorOOB
    ELSE
      LET uuidR        == UuidFromBytes(Slice(d, 10, 16))
          createTime   == Uint64At(d, 26)
          updateTime   == Uint64At(d, 34)
          vectorLength == Uint16At(d, 42)
      IN  IF uuidR.err THEN Result("error")
          ELSE IF ~Has(d, 44, 4 * vectorLength) /\ addProp.Vector THEN CursorOOB
          ELSE IF ~RegionsFit(d, vectorLength) THEN CursorOOB
          ELSE
            LET objVector == IF addProp.Vector
                             THEN [nil |-> FALSE, v |-> FloatsAt(d, 44, vectorLength)]
                             ELSE NilVector
                className == ClassBytes(d, vectorLength)
                propLength == Uint32At(d, PropsPos(d, vectorLength))
                props == IF addProp.NoProps THEN <<>> ELSE PropsBytes(d, vectorLength)
                meta  == IF addProp.Meta THEN MetaBytes(d, vectorLength) ELSE <<>>
                vectorWeights == WeightsBytes(d, vectorLength)
                tvR   == IF addProp.Vectors # {}
                         THEN unmarshalTargetVectors(d, TargetVectorsPos(d, vectorLength))
                         ELSE [status |-> "ok", vectors |-> NilVectors]
                ko0   == [ZeroObject EXCEPT
                            !.MarshallerVersion = 1,
                            !.DocID = Uint64At(d, 1),
                            !.VectorLen = vectorLength,
                            !.ObjectVector = objVector,
                            !.Vector = objVector,
                            !.Vectors = tvR.vectors,
                            !.ObjectVectors = tvR.vectors]
                parseR == parseObject(ko0, uuidR.id, createTime, updateTime, className,
                                      props, meta, vectorWeights, properties, propLength)
            IN  IF tvR.status # "ok" THEN Result(tvR.status)
                ELSE IF NeedsParse(props, meta, vectorWeights)
                THEN IF parseR.err THEN [Result("error") EXCEPT !.parsed = 1]
                     ELSE ObjectResult(parseR.ko, 1)
                ELSE ObjectResult([ko0 EXCEPT
                                     !.ID = uuidR.id,
                                     !.CreationTimeUnix = createTime,
                                     !.LastUpdateTimeUnix = updateTime,
                                     !.Class = className], 0)

\* (*Object).UnmarshalBinary on a zero Object, as FromBinary calls it
UnmarshalBinary(d) ==
    IF Len(d) = 0 THEN IndexPanic
    ELSE IF d[1] # 1 THEN UnsupportedVersion
    ELSE IF ~Has(d, 1, 8) THEN CursorOOB
    ELSE IF ~Has(d, 10, 16) THEN IndexPanic
    ELSE IF ~Has(d, 0, 44) THEN CursorOOB
    ELSE
      LET uuidR        == UuidFromBytes(Slice(d, 10, 16))
          createTime   == Uint64At(d, 26)
          updateTime   == Uint64At(d, 34)
          vectorLength == Uint16At(d, 42)
      IN  IF uuidR.err THEN Result("error")
          ELSE IF ~Has(d, 44, 4 * vectorLength) THEN CursorOOB
          ELSE IF ~RegionsFit(d, vectorLength) THEN CursorOOB
          ELSE
            LET tvR == unmarshalTargetVectors(d, TargetVectorsPos(d, vectorLength))
                ko0 == [ZeroObject EXCEPT
                          !.MarshallerVersion = 1,
                          !.DocID = Uint64At(d, 1),
                          !.VectorLen = vectorLength,
                          !.Vector = [nil |-> FALSE, v |-> FloatsAt(d, 44, vectorLength)],
                          !.Vectors = tvR.vectors]
                parseR == parseObject(ko0, uuidR.id, createTime, updateTime,
                                      ClassBytes(d, vectorLength),
                                      PropsBytes(d, vectorLength),
                                      MetaBytes(d, vectorLength),
                                      WeightsBytes(d, vectorLength),
                                      [nil |-> TRUE, names |-> {}], 0)
            IN  IF tvR.status # "ok" THEN Result(tvR.status)
                ELSE IF parseR.err THEN Result("error")
                ELSE ObjectResult(parseR.ko, 1)

\* FromBinary: a nil object with the error, or the object
FromBinary(d) == UnmarshalBinary(d)


\* DocIDFromBinary
DocIDFromBinary(d) ==
    IF Len(d) < 9 THEN Result("too_short")
    ELSE [Result("ok") EXCEPT !.docID = Uint64At(d, 1)]

\* DocIDAndTimeFromBinary: binary.Read and io.ReadFull return io.EOF or
\* io.ErrUnexpectedEOF on a short reader
DocIDAndTimeFromBinary(d) ==
    IF Len(d) < 1 THEN Result("eof")
    ELSE IF d[1] # 1 THEN UnsupportedVersion
    ELSE IF Len(d) < 1 + 8 THEN Result("eof")
    ELSE IF Len(d) < 1 + 8 + (1 + 16 + 8 + 8) THEN Result("eof")
    ELSE [Result("ok") EXCEPT !.docID = Uint64At(d, 1),
                              !.updateTime = Uint64At(d, 9 + 1 + 16 + 8)]

\* vecEnd - vecStart of VectorFromBinary: int(vecLen*4) with vecLen a uint16
VectorByteCount(vecLen) == Uint16(vecLen * 4)

\* VectorFromBinary(in, buffer, targetVector).  buffer is the backing array of
\* the scratch slice up to its capacity (<<>> for nil); targetVector is a name,
\* <<>> for "".
VectorFromBinary(d, buffer, targetVector) ==
    IF Len(d) = 0 THEN Result("ok")
    ELSE IF d[1] # 1 THEN UnsupportedVersion
    ELSE IF targetVector # <<>>
    THEN IF ~Has(d, 42, 2) THEN CursorOOB
         ELSE IF ~HasWeightsLen(d, Uint16At(d, 42)) THEN CursorOOB
         ELSE
           LET tvR == unmarshalTargetVectors(d, TargetVectorsPos(d, Uint16At(d, 42)))
           IN  IF tvR.status = "truncated" THEN CursorOOB
               ELSE IF tvR.status # "ok" THEN Result("error")
               ELSE IF targetVector \notin DOMAIN tvR.vectors.m THEN Result("not_found")
               ELSE [Result("ok") EXCEPT
                       !.vec = [nil |-> FALSE, v |-> tvR.vectors.m[targetVector]]]
    ELSE IF ~Has(d, 42, 2) THEN IndexPanic
    ELSE
      LET vecLen == Uint16At(d, 42)
          base   == IF Len(buffer) >= vecLen
                    THEN SubSeq(buffer, 1, vecLen)
                    ELSE AsSeq([i \in 1..vecLen |-> 0])
          count  == VectorByteCount(vecLen) \div 4
      IN  IF ~Has(d, 44, 4 * count) THEN IndexPanic
          ELSE [Result("ok") EXCEPT
                  !.vec = [nil |-> FALSE,
                           v   |-> AsSeq([i \in 1..vecLen |->
                                     IF i <= count THEN Uint32At(d, 44 + 4 * (i - 1))
                                     ELSE base[i]])]]

\* a reader that keeps the old values of the map
ClearMap_Keep(m) == m

\* for k := range *properties { delete(*properties, k) }
ClearMap(m) == EmptyMap

\* UnmarshalPropertiesFromObject(data, properties, aggregationProperties,
\* propStrings): the map *properties after the call is returned in props
UnmarshalPropertiesFromObject(d, properties, propStrings) ==
    IF Len(d) = 0 THEN [IndexPanic EXCEPT !.props = properties]
    ELSE IF d[1] # 1 THEN [UnsupportedVersion EXCEPT !.props = properties]
    ELSE IF ~Has(d, 42, 2) THEN CursorOOB
    ELSE IF ~HasPropsLen(d, Uint16At(d, 42)) THEN CursorOOB
    ELSE
      LET n == Uint16At(d, 42)
      IN  IF ~Has(d, PropsPos(d, n) + 4, Uint32At(d, PropsPos(d, n))) THEN IndexPanic
          ELSE LET r == UnmarshalProperties(PropsBytes(d, n), ClearMap(properties), propStrings)
               IN  [Result(IF r.err THEN "error" ELSE "ok") EXCEPT !.props = r.m]

-----------------------------------------------------------------------------
(* The codec specification: an object is encoded, the frame is handed to   *)
(* the decoders as it is, cut short, or with another version byte.         *)

\* bounds of the objects the codec specification draws
MaxVecLen == 3

MaxNames == 2

\* element i of the test vector with the given seed: a float32 bit pattern
\* below 2^31 whose four bytes all vary with i
Elem(i, seed) == i * 16383 + seed

VecOf(n, seed) == AsSeq([i \in 1..n |-> Elem(i, seed)])

\* the bits of float32 1.0, the seed of the primary vectors
SeedPrimary == 127 * 2^23

ByteSeqOf(n, b) == AsSeq([i \in 1..n |-> b])

Name(i) == <<96 + i>>

Names == {Name(i) : i \in 1..MaxNames}

\* The object under test is kept by its description: the record of the
\* object with each vector replaced by its length. ObjectOf builds the object:
\* element i of a vector is Elem(i, seed), the seed set by the vector's name.
NamedSeed(nm) == 7 + nm[1]

ObjectOf(d) ==
    [d EXCEPT
       !.Vector = [nil |-> d.Vector.nil, v |-> VecOf(d.Vector.n, SeedPrimary)],
       !.Vectors = [nil |-> d.Vectors.nil,
                    m |-> [nm \in DOMAIN d.Vectors.m |-> VecOf(d.Vectors.m[nm], NamedSeed(nm))]]]

\* the length of the named vector stored under name nm: 2, 0, 1, 2, ... by name
NamedLen(nm) == (nm[1] - 95) % 3

NamedVectorMaps ==
    {NilVectors} \cup
    {[nil |-> FALSE, m |-> [nm \in S |-> NamedLen(nm)]] : S \in SUBSET Names}

ClassThing == <<84, 104, 105, 110, 103>>

BaseDescription ==
    [ZeroObject EXCEPT
       !.MarshallerVersion = 1, !.DocID = 42,
       !.ID = [form |-> "canonical", bytes |-> UuidBytesA],
       !.Class = ClassThing,
       !.CreationTimeUnix = 1000, !.LastUpdateTimeUnix = 2000,
       !.Vector = [nil |-> FALSE, n |-> 3],
       !.VectorLen = 3]

BaseObject == ObjectOf(BaseDescription)

\* (properties, additional, vector weights) of the small objects
JsonCombos ==
    {<<"null", "null", "null">>, <<"objA1", "null", "null">>,
     <<"objA1", "objB2", "objA1">>, <<"null", "null", "objA1">>}

Identities ==
    {<<42, [form |-> "canonical", bytes |-> UuidBytesA]>>,
     <<66051, [form |-> "upper", bytes |-> UuidBytesB]>>}

SmallObjects ==
    {[BaseDescription EXCEPT
        !.DocID = idn[1], !.ID = idn[2],
        !.Class = cls,
        !.Vector = [nil |-> n = 0 /\ idn[1] = 42, n |-> n],
        !.VectorLen = n,
        !.Vectors = nv,
        !.Properties = js[1], !.Additional = js[2], !.VectorWeights = js[3]] :
     idn \in Identities, cls \in {<<>>, ClassThing}, n \in 0..MaxVecLen,
     nv \in NamedVectorMaps, js \in JsonCombos}

\* objects at and around the uint16 limits
BigVecLens == {(Pow2_16 \div 4) - 1, Pow2_16 \div 4, maxVectorLength, maxVectorLength + 1}

BigObjects ==
    {[BaseDescription EXCEPT !.Vector = [nil |-> FALSE, n |-> n],
                             !.VectorLen = n] : n \in BigVecLens}
    \cup {[BaseDescription EXCEPT !.Class = ByteSeqOf(n, 65)] :
            n \in {maxClassNameLength, maxClassNameLength + 1}}
    \cup {[BaseDescription EXCEPT !.Vectors =
             [nil |-> FALSE, m |-> [nm \in {Name(1)} |-> n]]] :
            n \in {maxVectorLength + 1}}

\* objects MarshalBinary refuses for their version or their id
InvalidObjects ==
    {[BaseDescription EXCEPT !.MarshallerVersion = v] : v \in {0, 2}}
    \cup {[BaseDescription EXCEPT !.ID = [form |-> "invalid", bytes |-> <<>>]]}

\* FromObject(object, vector, vectors) on the description: the nil entries
\* of the properties are deleted
FromObject(object) ==
    [object EXCEPT
       !.MarshallerVersion = 1,
       !.VectorLen = object.Vector.n,
       !.Properties =
          IF @ = "null" THEN @
          ELSE LET m == MapOf(JsonEntries(@))
               IN  TagOf([k \in {x \in DOMAIN m : m[x] # "null"} |-> m[k]])]

\* (ko *Object).SetProperties(schema)
SetProperties(ko, schema) == [ko EXCEPT !.Properties = schema]

\* property maps some of whose values are nil
NilValued == {"objAnullB2", "objAnullBref", "objArefBnull"}

\* objects built from such maps by FromObject and by SetProperties
ConstructedObjects ==
    {FromObject([BaseDescription EXCEPT !.Properties = p]) : p \in NilValued}
    \cup {SetProperties(BaseDescription, p) : p \in NilValued}

\* the maps a caller hands to UnmarshalPropertiesFromObject: a fresh one and
\* one that holds the values of an earlier object
ReusedMaps == {EmptyMap, [k \in {"a", "b"} |-> IF k = "a" THEN "2" ELSE "ref"]}

\* the descriptions of the objects under test
Objects == SmallObjects \cup BigObjects \cup InvalidObjects \cup ConstructedObjects

\* an object at the uint16 limits: its frames get the calls those limits matter for
IsBig(d) ==
    \/ d.Vector.n > 1024
    \/ Len(d.Class) > 1024
    \/ \E nm \in DOMAIN d.Vectors.m : d.Vectors.m[nm] > 1024

\* the orders a map iteration may take: the permutations of its keys
Perms(S) ==
    {s \in [1..Cardinality(S) -> S] : \A i, j \in 1..Cardinality(S) : s[i] = s[j] => i = j}

Reverse(s) == [i \in 1..Len(s) |-> s[Len(s) + 1 - i]]

NoEnc == [err |-> "unset", nil |-> TRUE, len |-> 0, ord |-> <<>>, mpOrd |-> <<>>]

NoData == [len |-> 0, ver |-> 1]

NoMask == [Vector |-> FALSE, NoProps |-> FALSE, Meta |-> FALSE, Vectors |-> {}]

NoProjection == [nil |-> TRUE, names |-> {}]

NoRes ==
    [op |-> "none", r |-> Result("none"), mask |-> NoMask, proj |-> NoProjection,
     buffer |-> <<>>, target |-> <<>>, properties |-> EmptyMap]

Masks ==
    [Vector : BOOLEAN, NoProps : BOOLEAN, Meta : BOOLEAN, Vectors : {{}, {Name(1)}}]

Projections == {NoProjection, [nil |-> FALSE, names |-> {"a"}]}

\* a scratch buffer's backing array: nil, too small, large enough, with junk
\* (the bits of +Inf) left by an earlier use
Junk(n) == ByteSeqOf(n, 2139095040)

ScratchBuffers(d) ==
    IF IsBig(d) THEN {<<>>, Junk(2), Junk(maxVectorLength)}
    ELSE {<<>>, Junk(1), Junk(MaxVecLen + 1)}

\* the object under test
Ko == ObjectOf(obj)

\* the frame MarshalBinary returned for it (enc records the iteration orders)
Frame == MarshalBinary(Ko, enc.ord, enc.mpOrd).buf

\* the blob handed to the decoders: the first data.len bytes of the frame,
\* the first byte replaced by data.ver when the blob is not empty
Blob ==
    LET f == Frame
    IN  IF dataKind = "frame" THEN f
        ELSE IF data.len = 0 THEN <<>>
        ELSE <<data.ver>> \o SubSeq(f, 2, data.len)

NoErr == [kind |-> "none", at |-> 0]

NoRet == [returned |-> FALSE, by |-> "", err |-> NoErr, nil |-> TRUE, out |-> <<>>]

NoGroup == [err |-> NoErr, failed |-> <<>>]

NoWrites == [w |-> <<>>, f |-> <<>>]

NoBucket == [nil |-> TRUE, m |-> <<>>]

BulkIdle ==
    /\ ids = <<>> /\ bucket = NoBucket /\ procs = 0 /\ pc = "idle" /\ tasks = <<>>
    /\ out = <<>> /\ writes = NoWrites /\ eg = NoGroup /\ bufPool = {} /\ ret = NoRet

CodecIdle ==
    /\ obj = BaseDescription /\ enc = NoEnc /\ data = NoData /\ dataKind = "none"
    /\ res = NoRes

Init ==
    /\ obj \in Objects
    /\ enc = NoEnc
    /\ data = NoData
    /\ dataKind = "none"
    /\ res = NoRes
    /\ BulkIdle

\* ko.MarshalBinary()
Marshal ==
    /\ enc = NoEnc
    /\ \E ord \in Perms(DOMAIN obj.Vectors.m) :
         \E mpOrd \in {ord, Reverse(ord)} :
           LET r == MarshalBinary(Ko, ord, mpOrd)
           IN  /\ enc' = [err |-> r.err, nil |-> r.nil, len |-> Len(r.buf),
                          ord |-> ord, mpOrd |-> mpOrd]
               /\ data' = [len |-> Len(r.buf), ver |-> 1]
               /\ dataKind' = IF r.err = "" THEN "frame" ELSE "none"
    /\ UNCHANGED <<obj, res>>
    /\ UNCHANGED bulkVars

\* the objects whose frames are cut short or given another version byte
Cuttable(o) ==
    /\ o.DocID = 42 /\ o.Class = ClassThing /\ o.Vector.n \in {0, 2}
    /\ o.Properties = "objA1" /\ o.Additional = "null" /\ o.VectorWeights = "null"

\* the frame is cut to a proper prefix
Truncate ==
    /\ dataKind = "frame"
    /\ res = NoRes
    /\ Cuttable(obj)
    /\ \E k \in 0..(data.len - 1) : data' = [data EXCEPT !.len = k]
    /\ dataKind' = "prefix"
    /\ UNCHANGED <<obj, enc, res>>
    /\ UNCHANGED bulkVars

\* the first byte is replaced by another version
SetVersion ==
    /\ dataKind \in {"frame", "prefix"}
    /\ res = NoRes
    /\ Cuttable(obj)
    /\ data.len \in {1, 5, 9, 30, 42, 44, enc.len}
    /\ \E v \in {0, 2, 255} : data' = [data EXCEPT !.ver = v]
    /\ dataKind' = "badver"
    /\ UNCHANGED <<obj, enc, res>>
    /\ UNCHANGED bulkVars

\* a blob is at hand and no decoder has been called on it yet
HasData == dataKind # "none" /\ res = NoRes

Returned(op, r, mask, proj, buffer, target) ==
    /\ res' = [op |-> op, r |-> r, mask |-> mask, proj |-> proj,
               buffer |-> buffer, target |-> target, properties |-> EmptyMap]
    /\ UNCHANGED <<obj, enc, data, dataKind>>
    /\ UNCHANGED bulkVars

CallFromBinary ==
    /\ HasData
    /\ Returned("FromBinary", FromBinary(Blob), NoMask, NoProjection, <<>>, <<>>)

CallFromBinaryOptional ==
    /\ HasData
    /\ ~IsBig(obj)
    /\ \E mask \in Masks, proj \in Projections :
         /\ dataKind = "frame" \/ (mask \in {NoMask, [NoMask EXCEPT !.Vector = TRUE,
                                                      !.Vectors = {Name(1)}]}
                                    /\ proj = NoProjection)
         /\ Returned("FromBinaryOptional", FromBinaryOptional(Blob, mask, proj),
                     mask, proj, <<>>, <<>>)

CallFromBinaryUUIDOnly ==
    /\ HasData
    /\ Returned("FromBinaryUUIDOnly", FromBinaryUUIDOnly(Blob),
                NoMask, NoProjection, <<>>, <<>>)

CallDocIDFromBinary ==
    /\ HasData
    /\ Returned("DocIDFromBinary", DocIDFromBinary(Blob),
                NoMask, NoProjection, <<>>, <<>>)

CallDocIDAndTimeFromBinary ==
    /\ HasData
    /\ Returned("DocIDAndTimeFromBinary", DocIDAndTimeFromBinary(Blob),
                NoMask, NoProjection, <<>>, <<>>)

CallVectorFromBinary ==
    /\ HasData
    /\ \E buffer \in ScratchBuffers(obj), target \in {<<>>} \cup Names \cup {Name(MaxNames + 1)} :
         /\ dataKind = "frame" \/ buffer = <<>>
         /\ ~IsBig(obj) \/ target = <<>>
         /\ Returned("VectorFromBinary", VectorFromBinary(Blob, buffer, target),
                     NoMask, NoProjection, buffer, target)

CallUnmarshalPropertiesFromObject ==
    /\ HasData
    /\ ~IsBig(obj)
    /\ \E names \in {{"a"}, {"b"}, {"a", "b"}}, properties \in ReusedMaps :
         /\ res' = [NoRes EXCEPT
                      !.op = "UnmarshalPropertiesFromObject",
                      !.r = UnmarshalPropertiesFromObject(Blob, properties, names),
                      !.proj = [nil |-> FALSE, names |-> names],
                      !.properties = properties]
         /\ UNCHANGED <<obj, enc, data, dataKind>>
         /\ UNCHANGED bulkVars

Next ==
    \/ Marshal
    \/ Truncate
    \/ SetVersion
    \/ CallFromBinary
    \/ CallFromBinaryOptional
    \/ CallFromBinaryUUIDOnly
    \/ CallDocIDFromBinary
    \/ CallDocIDAndTimeFromBinary
    \/ CallVectorFromBinary
    \/ CallUnmarshalPropertiesFromObject

Spec == Init /\ [][Next]_vars

-----------------------------------------------------------------------------
(* ObjectsByDocID: the bulk read of a list of doc ids from a bucket.       *)

MaxIds == 3

MaxProcs == 2

\* the id lists of the calls: ascending and descending doc ids
IdLists ==
    UNION {{AsSeq([i \in 1..n |-> i]), AsSeq([i \in 1..n |-> n + 1 - i])} : n \in 0..MaxIds}

\* the object the bucket stores under doc id
StoredObject(id) ==
    [BaseObject EXCEPT !.DocID = id, !.Class = <<84>>,
                       !.Vector = [nil |-> FALSE, v |-> VecOf(1, SeedPrimary + id)],
                       !.VectorLen = 1]

StoredBlob(id) == MarshalBinary(StoredObject(id), <<>>, <<>>).buf

\* a stored blob written by another marshaller version
CorruptBlob(id) == <<2>> \o SubSeq(StoredBlob(id), 2, Len(StoredBlob(id)))

\* what the bucket holds for an id: a blob, nothing, or a failing read
BucketEntries(id) ==
    {[kind |-> "found", blob |-> StoredBlob(id)],
     [kind |-> "found", blob |-> CorruptBlob(id)],
     [kind |-> "missing", blob |-> <<>>],
     [kind |-> "readerr", blob |-> <<>>]}

Buckets ==
    {NoBucket} \cup
    {[nil |-> FALSE, m |-> m] : m \in {f \in [1..MaxIds -> UNION {BucketEntries(id) : id \in 1..MaxIds}] :
                                           \A id \in 1..MaxIds : f[id] \in BucketEntries(id)}}

\* bucket.GetBySecondaryWithBuffer(0, docIDBuf, lsmBuf)
GetBySecondaryWithBuffer(b, id) ==
    LET e == b.m[id]
    IN  IF e.kind = "readerr" THEN [err |-> [kind |-> "bucket", at |-> id], nil |-> TRUE, res |-> <<>>]
        ELSE IF e.kind = "missing" THEN [err |-> NoErr, nil |-> TRUE, res |-> <<>>]
        ELSE [err |-> NoErr, nil |-> FALSE, res |-> e.blob]

\* a scratch buffer: who allocated it ("pool" or "bucket"), for which read or
\* call (n), and its capacity
NoBuffer == [by |-> "none", n |-> 0, cap |-> 0]

\* newBufferPool(10 * 1024), scaled to the blobs of the model: the capacity
\* of a buffer the pool allocates is below the length of a stored blob
initialSize == 64

\* bufPool.Get() by the call on ids[start:end]: a buffer of the pool, a new
\* one when the pool is empty
Get(pool, start) ==
    IF pool = {} THEN {[by |-> "pool", n |-> start + 1, cap |-> initialSize]} ELSE pool

\* the buffer GetBySecondaryWithBuffer hands back for the read of ids[pos]
\* with lsmBuf: lsmBuf itself, a larger one when the value does not fit
newBuf(lsmBuf, r, pos) ==
    IF Len(r) > lsmBuf.cap THEN [by |-> "bucket", n |-> pos + 1, cap |-> Len(r)] ELSE lsmBuf

\* a reader that goes on with the buffer it passed
Adopt_KeepOld(lsmBuf, new) == lsmBuf

\* lsmBuf = newBuf
Adopt(lsmBuf, new) == new

\* parallel := 2 * runtime.GOMAXPROCS(0)
Parallel == 2 * procs

Max(a, b) == IF a >= b THEN a ELSE b

\* a chunk size rounded down instead of up
ChunkSize_Floor(n, parallel) == Max(n \div parallel, 1)

\* chunkSize := max(int(math.Ceil(float64(len(ids))/float64(parallel))), 1)
ChunkSize(n, parallel) == Max((n + parallel - 1) \div parallel, 1)

\* the [start, end) range of the chunk-th iteration of the dispatch loop
ChunkStart(chunk) == chunk * ChunkSize(Len(ids), Parallel)

ChunkEnd(chunk) ==
    LET end == ChunkStart(chunk) + ChunkSize(Len(ids), Parallel)
    IN  IF end > Len(ids) THEN Len(ids) ELSE end

\* a call of objectsByDocIDSequential on ids[start:end] that has not read yet
\* (pos: the index of the next id, objs: out[:i])
\* lsmBuf: the scratch buffer the call holds, took: the one bufPool.Get()
\* gave it; history: given, the buffer passed to each read, back, the buffer
\* each read handed back, put, the buffers passed to bufPool.Put
NewTask(start, end) ==
    [start |-> start, end |-> end, pos |-> start, objs |-> <<>>,
     state |-> "run", err |-> NoErr,
     lsmBuf |-> NoBuffer, took |-> NoBuffer, given |-> <<>>, back |-> <<>>, put |-> <<>>]

Zeros(n) == AsSeq([i \in 1..n |-> 0])

NoHistory(n) == [w |-> AsSeq([i \in 1..n |-> {}]), f |-> AsSeq([i \in 1..n |-> {}])]

InitBulk ==
    /\ CodecIdle
    /\ ids \in IdLists
    /\ bucket \in Buckets
    /\ procs \in 1..MaxProcs
    /\ pc = "ObjectsByDocID"
    /\ tasks = <<>>
    /\ out = <<>>
    /\ writes = NoHistory(Len(ids))
    /\ eg = NoGroup
    /\ bufPool = {}
    /\ ret = NoRet

\* ObjectsByDocID: a single id is read by the caller, anything else in chunks
Enter ==
    /\ pc = "ObjectsByDocID"
    /\ IF Len(ids) = 1
       THEN /\ pc' = "objectsByDocIDSequential"
            /\ tasks' = <<NewTask(0, 1)>>
       ELSE /\ pc' = "objectsByDocIDParallel"
            /\ UNCHANGED tasks
    /\ UNCHANGED <<ids, bucket, procs, out, writes, eg, bufPool, ret>>
    /\ UNCHANGED codecVars

\* objectsByDocIDParallel up to the dispatch loop: the shared output slice
Allocate ==
    /\ pc = "objectsByDocIDParallel"
    /\ out' = Zeros(Len(ids))
    /\ pc' = "loop"
    /\ UNCHANGED <<ids, bucket, procs, tasks, writes, eg, bufPool, ret>>
    /\ UNCHANGED codecVars

\* one iteration of the dispatch loop: eg.Go on the next chunk, or the loop ends
\* (every iteration before the last started a task: chunk = Len(tasks))
Dispatch ==
    /\ pc = "loop"
    /\ LET chunk == Len(tasks)
       IN  IF chunk < Parallel /\ ChunkStart(chunk) < Len(ids)
           THEN /\ Cardinality({t \in DOMAIN tasks : tasks[t].state = "run"}) < Parallel
                /\ tasks' = Append(tasks, NewTask(ChunkStart(chunk), ChunkEnd(chunk)))
                /\ UNCHANGED pc
           ELSE /\ pc' = "wait"
                /\ UNCHANGED tasks
    /\ UNCHANGED <<ids, bucket, procs, out, writes, eg, bufPool, ret>>
    /\ UNCHANGED codecVars

\* the task after one iteration of the read loop of objectsByDocIDSequential
\* (docs ids are positive: the decoded object is kept as its doc id)
\* a return runs the deferred bufPool.Put(lsmBuf)
FetchStep(task) ==
    IF bucket.nil THEN [task EXCEPT !.state = "failed", !.err = [kind |-> "nobucket", at |-> 0]]
    ELSE
    LET id == ids[task.pos + 1]
        g  == GetBySecondaryWithBuffer(bucket, id)
        r  == FromBinaryOptional(g.res, NoMask, NoProjection)
        nb == newBuf(task.lsmBuf, g.res, task.pos)
        read == [task EXCEPT !.given = Append(@, task.lsmBuf)]
        next == [read EXCEPT !.back = Append(@, nb), !.lsmBuf = Adopt(@, nb)]
    IN  IF g.err # NoErr
        THEN [read EXCEPT !.state = "failed", !.err = g.err, !.put = Append(@, read.lsmBuf)]
        ELSE IF g.nil THEN [next EXCEPT !.pos = @ + 1]
        ELSE IF r.status # "ok"
             THEN [next EXCEPT !.state = "failed",
                               !.err = [kind |-> "unmarshal", at |-> Len(task.objs)],
                               !.put = Append(@, next.lsmBuf)]
        ELSE [next EXCEPT !.pos = @ + 1, !.objs = Append(@, r.obj.DocID)]

\* the call takes its buffer from the pool before its first read (a nil
\* bucket returns before that): the buffers it may get, the one it holds else
Takes(task) == ~bucket.nil /\ task.took = NoBuffer

Buffers(task) == IF Takes(task) THEN Get(bufPool, task.start) ELSE {task.lsmBuf}

Holding(task, b) == IF Takes(task) THEN [task EXCEPT !.took = b, !.lsmBuf = b] ELSE task

\* the pool after a step of a call that held b at its read and is now task
PoolAfter(b, task) == (bufPool \ {b}) \cup {task.put[i] : i \in DOMAIN task.put}

\* the error group after a task returned err: the first error is kept
GroupAfter(g, t, err) ==
    [err |-> IF g.err = NoErr THEN err ELSE g.err,
     failed |-> Append(g.failed, [task |-> t, err |-> err])]

Fetched(t, task) ==
    IF bucket.nil THEN writes ELSE [writes EXCEPT !.f[task.pos + 1] = @ \cup {t}]

\* a chunk task reads its next id; a failure ends the task
TaskFetch ==
    /\ pc \in {"loop", "wait"}
    /\ \E t \in DOMAIN tasks :
         /\ tasks[t].state = "run"
         /\ bucket.nil \/ tasks[t].pos < tasks[t].end
         /\ \E b \in Buffers(tasks[t]) :
              LET task == FetchStep(Holding(tasks[t], b))
              IN  /\ tasks' = [tasks EXCEPT ![t] = task]
                  /\ writes' = Fetched(t, tasks[t])
                  /\ eg' = IF task.state = "failed" THEN GroupAfter(eg, t, task.err) ELSE eg
                  /\ bufPool' = PoolAfter(b, task)
    /\ UNCHANGED <<ids, bucket, procs, pc, out, ret>>
    /\ UNCHANGED codecVars

\* copy(out[start:end], objs)
CopyInto(o, start, objs) ==
    AsSeq([i \in 1..Len(o) |->
             IF i > start /\ i <= start + Len(objs) THEN objs[i - start] ELSE o[i]])

\* a chunk task read all its ids: its objects go into the shared slice
TaskReturn ==
    /\ pc \in {"loop", "wait"}
    /\ \E t \in DOMAIN tasks :
         /\ tasks[t].state = "run"
         /\ ~bucket.nil
         /\ tasks[t].pos = tasks[t].end
         /\ tasks' = [tasks EXCEPT ![t].state = "done", ![t].put = Append(@, tasks[t].lsmBuf)]
         /\ bufPool' = bufPool \cup {tasks[t].lsmBuf}
         /\ out' = CopyInto(out, tasks[t].start, tasks[t].objs)
         /\ writes' = [writes EXCEPT !.w =
                         [i \in DOMAIN @ |->
                            IF i > tasks[t].start /\ i <= tasks[t].start + Len(tasks[t].objs)
                            THEN @[i] \cup {t} ELSE @[i]]]
    /\ UNCHANGED <<ids, bucket, procs, pc, eg, ret>>
    /\ UNCHANGED codecVars

\* a return that hands out the shared slice whatever eg.Wait() returned
WaitResult_Partial(err, o) ==
    [returned |-> TRUE, by |-> "objectsByDocIDParallel", err |-> err, nil |-> FALSE, out |-> o]

\* what objectsByDocIDParallel returns once eg.Wait() returned err
WaitResult(err, o) ==
    IF err # NoErr
    THEN [returned |-> TRUE, by |-> "objectsByDocIDParallel", err |-> err,
          nil |-> TRUE, out |-> <<>>]
    ELSE [returned |-> TRUE, by |-> "objectsByDocIDParallel", err |-> NoErr,
          nil |-> FALSE, out |-> o]

\* eg.Wait() returns when every task has returned
Wait ==
    /\ pc = "wait"
    /\ \A t \in DOMAIN tasks : tasks[t].state # "run"
    /\ ret' = WaitResult(eg.err, out)
    /\ pc' = "done"
    /\ UNCHANGED <<ids, bucket, procs, tasks, out, writes, eg, bufPool>>
    /\ UNCHANGED codecVars

\* the single id is read by the caller
SeqFetch ==
    /\ pc = "objectsByDocIDSequential"
    /\ tasks[1].state = "run"
    /\ bucket.nil \/ tasks[1].pos < tasks[1].end
    /\ \E b \in Buffers(tasks[1]) :
       LET task == FetchStep(Holding(tasks[1], b))
       IN  /\ tasks' = [tasks EXCEPT ![1] = task]
           /\ writes' = Fetched(1, tasks[1])
           /\ bufPool' = PoolAfter(b, task)
           /\ IF task.state = "failed"
              THEN /\ ret' = [returned |-> TRUE, by |-> "objectsByDocIDSequential",
                           err |-> task.err, nil |-> TRUE, out |-> <<>>]
                   /\ pc' = "done"
              ELSE UNCHANGED <<ret, pc>>
    /\ UNCHANGED <<ids, bucket, procs, out, eg>>
    /\ UNCHANGED codecVars

\* return out[:i], nil
SeqReturn ==
    /\ pc = "objectsByDocIDSequential"
    /\ tasks[1].state = "run"
    /\ ~bucket.nil
    /\ tasks[1].pos = tasks[1].end
    /\ tasks' = [tasks EXCEPT ![1].state = "done", ![1].put = Append(@, tasks[1].lsmBuf)]
    /\ bufPool' = bufPool \cup {tasks[1].lsmBuf}
    /\ ret' = [returned |-> TRUE, by |-> "objectsByDocIDSequential",
                err |-> NoErr, nil |-> FALSE, out |-> tasks[1].objs]
    /\ pc' = "done"
    /\ UNCHANGED <<ids, bucket, procs, out, writes, eg>>
    /\ UNCHANGED codecVars

NextBulk ==
    \/ Enter
    \/ Allocate
    \/ Dispatch
    \/ TaskFetch
    \/ TaskReturn
    \/ Wait
    \/ SeqFetch
    \/ SeqReturn

SpecBulk == InitBulk /\ [][NextBulk]_vars

-----------------------------------------------------------------------------
(* Properties of the codec.                                                *)

\* the decoder op has been called on the frame MarshalBinary returned
OnFrame(op) == dataKind = "frame" /\ res.op = op

\* the decoder call recorded in res, made on the blob d
Decode(d) ==
    CASE res.op = "FromBinary" -> FromBinary(d)
      [] res.op = "FromBinaryOptional" -> FromBinaryOptional(d, res.mask, res.proj)
      [] res.op = "FromBinaryUUIDOnly" -> FromBinaryUUIDOnly(d)
      [] res.op = "DocIDFromBinary" -> DocIDFromBinary(d)
      [] res.op = "DocIDAndTimeFromBinary" -> DocIDAndTimeFromBinary(d)
      [] res.op = "VectorFromBinary" -> VectorFromBinary(d, res.buffer, res.target)
      [] res.op = "UnmarshalPropertiesFromObject" ->
             UnmarshalPropertiesFromObject(d, res.properties, res.proj.names)
      [] OTHER -> Result("none")

\* C4: FromBinary (UnmarshalBinary) of a frame MarshalBinary produced succeeds
\* and yields the doc id, the uuid, the class name, both timestamps, the
\* primary vector bit for bit and the named-vector mapping of the object,
\* for primary vectors of 0 to 65535 elements.
C4_RoundTrip ==
    OnFrame("FromBinary") =>
        LET ko == Ko
        IN  /\ res.r.status = "ok"
            /\ res.r.hasObj
            /\ res.r.obj.DocID = ko.DocID
            /\ res.r.obj.ID.bytes = ko.ID.bytes
            /\ res.r.obj.Class = ko.Class
            /\ res.r.obj.CreationTimeUnix = ko.CreationTimeUnix
            /\ res.r.obj.LastUpdateTimeUnix = ko.LastUpdateTimeUnix
            /\ Len(res.r.obj.Vector.v) = Len(ko.Vector.v)
            /\ res.r.obj.Vector.v = ko.Vector.v
            /\ DOMAIN res.r.obj.Vectors.m = DOMAIN ko.Vectors.m
            /\ \A nm \in DOMAIN ko.Vectors.m : res.r.obj.Vectors.m[nm] = ko.Vectors.m[nm]

C4_Witness ==
    /\ OnFrame("FromBinary")
    /\ obj.Vector.n = Pow2_16 \div 4
    /\ res.r.status = "ok"
    /\ res.r.obj.Vector.v = Ko.Vector.v

\* C5: FromBinaryUUIDOnly of a frame returns the id and the class name of
\* the encoded object, for every primary vector length from 0 to 65535.
C5_UUIDOnlyClaim ==
    OnFrame("FromBinaryUUIDOnly") =>
        /\ res.r.status = "ok"
        /\ res.r.obj.ID.bytes = obj.ID.bytes
        /\ res.r.obj.Class = obj.Class

\* C6: VectorFromBinary(frame, scratch, "") returns exactly len(o.Vector)
\* elements, each equal to the element of o.Vector, for every primary vector
\* length from 0 to 65535 and every scratch buffer.
C6_VectorClaim ==
    (OnFrame("VectorFromBinary") /\ res.target = <<>>) =>
        /\ res.r.status = "ok"
        /\ Len(res.r.vec.v) = obj.Vector.n
        /\ res.r.vec.v = Ko.Vector.v

\* the named-vector section of a frame b whose primary vector has n elements
OffsetsInFrame(b, n) ==
    MsgpackUnmarshal(Slice(b, TargetVectorsPos(b, n) + 4, Uint32At(b, TargetVectorsPos(b, n))))

SegmentPos(b, n) == TargetVectorsPos(b, n) + 4 + Uint32At(b, TargetVectorsPos(b, n)) + 4

SegmentLenInFrame(b, n) == Uint32At(b, SegmentPos(b, n) - 4)

RECURSIVE SumOver(_, _)
SumOver(S, m) ==
    IF S = {} THEN 0
    ELSE LET x == CHOOSE y \in S : TRUE
         IN  2 + 4 * Len(m[x]) + SumOver(S \ {x}, m)

\* C7: for a non-empty named-vector map and every order the encoder's map
\* iteration takes, the offsets map of the frame has exactly the names of
\* the map, each offset is the start of that name's own (u16 length, floats)
\* record inside the segment, the records do not overlap, their sizes add up
\* to the written segment length, and VectorFromBinary(frame, _, k) returns
\* o.Vectors[k] for every name k.
C7_NamedVectors ==
    (dataKind = "frame" /\ DOMAIN obj.Vectors.m # {}) =>
        LET m      == Ko.Vectors.m
            b      == Blob
            n      == obj.Vector.n
            offR   == OffsetsInFrame(b, n)
            off    == offR.m
            segPos == SegmentPos(b, n)
            segLen == SegmentLenInFrame(b, n)
        IN  /\ ~offR.err
            /\ DOMAIN off = DOMAIN m
            /\ \A k \in DOMAIN m :
                 /\ off[k] + 2 + 4 * Len(m[k]) <= segLen
                 /\ Uint16At(b, segPos + off[k]) = Len(m[k])
                 /\ FloatsAt(b, segPos + off[k] + 2, Len(m[k])) = m[k]
            /\ \A k1, k2 \in DOMAIN m :
                 k1 # k2 => \/ off[k1] + 2 + 4 * Len(m[k1]) <= off[k2]
                            \/ off[k2] + 2 + 4 * Len(m[k2]) <= off[k1]
            /\ SumOver(DOMAIN m, m) = segLen
            /\ segPos + segLen = Len(b)
            /\ (res.op = "VectorFromBinary" /\ res.target \in DOMAIN m) =>
                 /\ res.r.status = "ok"
                 /\ res.r.vec.v = m[res.target]

C7_Witness ==
    /\ OnFrame("VectorFromBinary")
    /\ enc.ord = <<Name(2), Name(1)>>
    /\ res.target = Name(1)
    /\ res.r.status = "ok"
    /\ res.r.vec.v = Ko.Vectors.m[Name(1)]
    /\ Len(res.r.vec.v) > 0

\* C8: every read entry point returns an unsupported-version error, and no
\* decoded value, for every non-empty blob whose first byte is not 1.
C8_VersionClaim ==
    (dataKind = "badver" /\ res.op # "none") =>
        /\ res.r.status = "unsupported_version"
        /\ ~res.r.hasObj
        /\ res.r.vec.nil
        /\ res.r.docID = 0

\* the blob is a frame as written before named vectors existed: it ends
\* exactly after the vector-weights region
IsLegacyFrame(d) ==
    /\ Has(d, 0, 44)
    /\ RegionsFit(d, Uint16At(d, 42))
    /\ Len(d) = TargetVectorsPos(d, Uint16At(d, 42))

\* C9: on a proper prefix of a valid frame a decoder does not crash and does
\* not return a partially filled result: it returns an error, unless the
\* bytes it reads all lie in the prefix and it returns what it returns on the
\* whole frame.
C9_TruncatedClaim ==
    (dataKind = "prefix" /\ res.op # "none" /\ ~IsLegacyFrame(Blob)) =>
        /\ res.r.status # "panic"
        /\ res.r.status = "ok" => res.r = Decode(Frame)

\* what MarshalBinary must refuse
Oversized(d) ==
    \/ d.Vector.n > maxVectorLength
    \/ \E nm \in DOMAIN d.Vectors.m : d.Vectors.m[nm] > maxVectorLength
    \/ Len(d.Class) > maxClassNameLength

\* C10: MarshalBinary returns an error and a nil buffer when the version is
\* not 1, the primary vector or a named vector has more than 65535 elements,
\* or the class name has more than 65535 bytes; an object with version 1, a
\* valid id and no field above its limit (a vector of exactly 65535 elements
\* included) is encoded.
C10_MarshalRefuses ==
    enc # NoEnc =>
        /\ (obj.MarshallerVersion # 1 \/ Oversized(obj)) =>
              (enc.err # "" /\ enc.nil /\ enc.len = 0)
        /\ (obj.MarshallerVersion = 1 /\ ~UuidParse(obj.ID).err /\ ~Oversized(obj)) =>
              (enc.err = "" /\ ~enc.nil /\ dataKind # "none")

C10_Witness ==
    /\ enc # NoEnc
    /\ \E nm \in DOMAIN obj.Vectors.m : obj.Vectors.m[nm] = maxVectorLength + 1
    /\ enc.err # ""
    /\ enc.nil

\* the bytes the ReadWriter has written when MarshalBinary returns
WrittenLength(ko, ord, mpOrd) ==
    LET offsets == IF Len(ord) > 0
                   THEN MsgpackMarshal(OffsetsMap(ko.Vectors.m, ord), mpOrd) ELSE <<>>
    IN  Len(FrameBytes(ko, UuidParse(ko.ID).bytes, JsonMarshal(ko.Properties),
                       JsonMarshal(ko.Additional), JsonMarshal(ko.VectorWeights),
                       offsets, ord))

\* the size of the packed offsets map of the names S: one header byte, per
\* name a length byte, the name, a type byte and four offset bytes
RECURSIVE SumOf(_, _)
SumOf(S, f) ==
    IF S = {} THEN 0
    ELSE LET x == CHOOSE y \in S : TRUE
         IN  f[x] + SumOf(S \ {x}, f)

PackedOffsetsSize(S) == IF S = {} THEN 0 ELSE 1 + SumOf(S, [nm \in S |-> 1 + Len(nm) + 5])

\* C11: the buffer of a successfully encoded object starts with version 1,
\* has kind byte 1 at offset 9 and the little-endian uint16 vector length at
\* offsets 42..43, its length is 42 + 2 + 4n + 2 + c + 4 + s + 4 + m + 4 + w
\* + 4 + o + 4 + v, and the writer has written exactly that many bytes.
C11_FrameLayout ==
    (enc.err = "" /\ res = NoRes /\ dataKind = "frame") =>
        LET b == Frame
            n == obj.Vector.n
            S == DOMAIN obj.Vectors.m
            c == Len(obj.Class)
            s == Len(JsonText(obj.Properties))
            m == Len(JsonText(obj.Additional))
            w == Len(JsonText(obj.VectorWeights))
            o == PackedOffsetsSize(S)
            v == SumOf(S, [nm \in S |-> 2 + 4 * obj.Vectors.m[nm]])
        IN  /\ b[1] = 1
            /\ b[10] = 1
            /\ b[43] + 256 * b[44] = n
            /\ Len(b) = 42 + 2 + 4 * n + 2 + c + 4 + s + 4 + m + 4 + w + 4 + o + 4 + v
            /\ enc.len = Len(b)
            /\ WrittenLength(Ko, enc.ord, enc.mpOrd) = Len(b)

C11_Witness ==
    /\ enc.err = "" /\ res = NoRes /\ dataKind = "frame"
    /\ obj.Vector.n = 3
    /\ DOMAIN obj.Vectors.m = {Name(1), Name(2)}
    /\ obj.VectorWeights = "objA1"
    /\ enc.len = 42 + 2 + 12 + 2 + Len(obj.Class) + 4 + 7 + 4 + 7 + 4 + 7 + 4 + 15 + 4 + 12

\* C12: a version-1 blob that ends exactly after the vector-weights region
\* decodes with FromBinary and with FromBinaryOptional, also when the mask
\* asks for named vectors: no read past the end, the fields before the
\* named-vector section are those of the object, the named-vector mapping
\* is empty.
C12_LegacyFrame ==
    (dataKind = "prefix" /\ res.op \in {"FromBinary", "FromBinaryOptional"}
       /\ IsLegacyFrame(Blob)) =>
        /\ res.r.status = "ok"
        /\ res.r.hasObj
        /\ res.r.obj.DocID = obj.DocID
        /\ res.r.obj.ID.bytes = obj.ID.bytes
        /\ res.r.obj.Class = obj.Class
        /\ res.r.obj.VectorLen = obj.Vector.n
        /\ res.r.obj.Vectors.nil
        /\ DOMAIN res.r.obj.Vectors.m = {}

C12_Witness ==
    /\ dataKind = "prefix" /\ res.op = "FromBinaryOptional"
    /\ IsLegacyFrame(Blob)
    /\ data.len < enc.len - 8
    /\ res.mask.Vectors # {}
    /\ res.r.status = "ok"
    /\ res.r.obj.Vectors.nil

\* the bytes FromBinaryOptional reads of the properties and the additional
\* region of the frame of the object under test, under the mask of the call
PropsRead == IF res.mask.NoProps THEN <<>> ELSE JsonText(obj.Properties)

MetaRead == IF res.mask.Meta THEN JsonText(obj.Additional) ELSE <<>>

NothingToParse ==
    /\ PropsRead = <<>> /\ MetaRead = <<>>
    /\ JsonText(obj.VectorWeights) \in {<<>>, <<110, 117, 108, 108>>}

\* C13: FromBinaryOptional on a frame: when no properties bytes and no
\* additional bytes were read and the vector weights are empty or the text
\* null, parseObject is not called and the result carries id, times, class
\* and doc id with properties, additional and weights unset; in every other
\* case parseObject is called exactly once.
C13_FastPath ==
    OnFrame("FromBinaryOptional") =>
        IF NothingToParse
        THEN /\ res.r.status = "ok"
             /\ res.r.parsed = 0
             /\ res.r.obj.ID.bytes = obj.ID.bytes
             /\ res.r.obj.CreationTimeUnix = obj.CreationTimeUnix
             /\ res.r.obj.LastUpdateTimeUnix = obj.LastUpdateTimeUnix
             /\ res.r.obj.Class = obj.Class
             /\ res.r.obj.DocID = obj.DocID
             /\ res.r.obj.Properties = "null"
             /\ res.r.obj.Additional = "null"
             /\ res.r.obj.VectorWeights = "null"
        ELSE res.r.parsed = 1

C13_Witness ==
    /\ OnFrame("FromBinaryOptional")
    /\ NothingToParse
    /\ obj.Properties = "objA1"
    /\ res.mask.Vector /\ res.mask.Vectors # {}
    /\ res.r.status = "ok" /\ res.r.parsed = 0

\* C14: FromBinaryOptional on the frame of any object, with properties
\* masked out (NoProps) and any projection including none, succeeds and
\* returns the object's id, class and times with properties unset.
C14_NoPropsClaim ==
    (OnFrame("FromBinaryOptional") /\ res.mask.NoProps) =>
        /\ res.r.status = "ok"
        /\ res.r.obj.ID.bytes = obj.ID.bytes
        /\ res.r.obj.Class = obj.Class
        /\ res.r.obj.CreationTimeUnix = obj.CreationTimeUnix
        /\ res.r.obj.LastUpdateTimeUnix = obj.LastUpdateTimeUnix
        /\ res.r.obj.Properties \in {"null", "emptyObj"}

\* C15: FromBinaryOptional with a non-empty Vectors mask returns the named
\* vectors whose names the mask lists and no other; with an empty mask the
\* named-vector mapping is unset.
C15_VectorsMaskClaim ==
    (OnFrame("FromBinaryOptional") /\ res.r.status = "ok") =>
        IF res.mask.Vectors = {}
        THEN res.r.obj.Vectors.nil
        ELSE DOMAIN res.r.obj.Vectors.m = res.mask.Vectors \cap DOMAIN obj.Vectors.m

\* the properties map of the object under test, as constructed
StoredProperties == MapOf(JsonEntries(obj.Properties))

\* C16: for an object whose properties map holds nil values, built by
\* FromObject or by New and SetProperties, the properties decoded from its
\* frame hold none of the nil-valued keys, and every other key with its value.
C16_NullKeysAbsent ==
    (OnFrame("FromBinary") /\ res.r.status = "ok") =>
        LET decoded == MapOf(JsonEntries(res.r.obj.Properties))
        IN  \A k \in DOMAIN StoredProperties :
              IF StoredProperties[k] = "null"
              THEN k \notin DOMAIN decoded
              ELSE k \in DOMAIN decoded /\ decoded[k] = StoredProperties[k]

\* C17: UnmarshalProperties returns an error whenever a requested property
\* fails to parse (here: a null, an unsupported value class), whatever the
\* order of the properties in the document and whatever follows the failure.
C17_ErrorKept ==
    (OnFrame("UnmarshalPropertiesFromObject")
       /\ \E k \in res.proj.names \cap DOMAIN StoredProperties :
            StoredProperties[k] = "null") =>
        res.r.status = "error"

\* C19: after UnmarshalPropertiesFromObject on a version-1 blob, called with
\* a map an earlier call has filled, the map holds only keys requested and
\* present in this blob, with this blob's values; on a frame it holds every
\* requested key that has a value.
C19_ReusedMap ==
    (res.op = "UnmarshalPropertiesFromObject" /\ dataKind \in {"frame", "prefix"}
       /\ data.len > 0) =>
        /\ DOMAIN res.r.props \subseteq res.proj.names \cap DOMAIN StoredProperties
        /\ \A k \in DOMAIN res.r.props : res.r.props[k] = StoredProperties[k]
        /\ dataKind = "frame" =>
             \A k \in res.proj.names \cap DOMAIN StoredProperties :
               StoredProperties[k] # "null" => k \in DOMAIN res.r.props

C19_Witness ==
    /\ OnFrame("UnmarshalPropertiesFromObject")
    /\ DOMAIN res.properties = {"a", "b"}
    /\ obj.Properties = "objA1"
    /\ res.proj.names = {"a", "b"}
    /\ res.r.status = "ok"
    /\ DOMAIN res.r.props = {"a"}
    /\ res.r.props["a"] = "1"

\* C20: the vector fields FromBinaryOptional returns do not depend on whether
\* parseObject ran: with mask Vector the embedded model's Vector is the
\* top-level Vector, the decoded primary vector; with a non-empty Vectors
\* mask the embedded model's Vectors is the top-level Vectors; VectorLen is
\* the encoded length of the primary vector.  A nil and an empty vector
\* count as equal.
C20_VectorFields ==
    (OnFrame("FromBinaryOptional") /\ res.r.status = "ok") =>
        /\ res.r.obj.VectorLen = obj.Vector.n
        /\ res.mask.Vector =>
             /\ res.r.obj.Vector.v = Ko.Vector.v
             /\ res.r.obj.ObjectVector.v = res.r.obj.Vector.v
        /\ res.mask.Vectors # {} => res.r.obj.ObjectVectors.m = res.r.obj.Vectors.m

-----------------------------------------------------------------------------
(* Properties of the bulk read.                                            *)

\* the doc ids of the input the bucket holds an object for, in input order
FoundInOrder == SelectSeq(ids, LAMBDA id : bucket.m[id].kind = "found")

\* C1: a successful ObjectsByDocID returns exactly the objects found, in the
\* order of their ids in the input and with no nil entry, on the sequential
\* and on the parallel path
C1_Compacted ==
    (ret.returned /\ ret.err = NoErr) =>
        /\ ret.out = FoundInOrder
        /\ \A i \in DOMAIN ret.out : ret.out[i] # 0

InParallel == pc \in {"loop", "wait"} \/ ret.by = "objectsByDocIDParallel"

\* the tasks whose range holds the 1-based index i
Owners(i) == {t \in DOMAIN tasks : tasks[t].start < i /\ i <= tasks[t].end}

\* C2: objectsByDocIDParallel starts at most `parallel` tasks; their ranges
\* are non-empty, contiguous from 0 and disjoint, and once the loop has ended
\* they cover 0..n-1; an id is fetched and an output index written only by
\* the task that owns it, and every id is fetched when no task failed
C2_Chunks ==
    InParallel =>
        /\ Len(tasks) <= Parallel
        /\ \A t \in DOMAIN tasks :
             /\ tasks[t].start < tasks[t].end
             /\ tasks[t].end <= Len(ids)
             /\ tasks[t].start = IF t = 1 THEN 0 ELSE tasks[t - 1].end
        /\ pc # "loop" =>
             /\ \A i \in 1..Len(ids) : Cardinality(Owners(i)) = 1
             /\ \A t \in DOMAIN tasks : t = Len(tasks) => tasks[t].end = Len(ids)
        /\ \A i \in 1..Len(ids) :
             /\ Cardinality(Owners(i)) <= 1
             /\ writes.w[i] \subseteq Owners(i)
             /\ writes.f[i] \subseteq Owners(i)
        /\ (ret.returned /\ ret.err = NoErr) =>
             \A i \in 1..Len(ids) : Cardinality(writes.f[i]) = 1

\* three ids went to two tasks of two and one ids, and all were written
C2_Witness ==
    /\ ret.by = "objectsByDocIDParallel"
    /\ Len(ids) = 3 /\ Len(tasks) = 2
    /\ tasks[2].end - tasks[2].start = 1
    /\ writes.w = <<{1}, {1}, {2}>>

\* C3: when a task failed, the call returns an error and a nil list, the
\* error being the first one the group recorded; the call returns only when
\* no task is running any more
C3_Failure ==
    ret.returned =>
        /\ \A t \in DOMAIN tasks : tasks[t].state # "run"
        /\ (\E t \in DOMAIN tasks : tasks[t].state = "failed") =>
             /\ ret.err # NoErr
             /\ ret.nil /\ ret.out = <<>>
             /\ ret.err = IF ret.by = "objectsByDocIDParallel"
                          THEN eg.failed[1].err ELSE tasks[1].err

\* two tasks failed with different errors, the later chunk first
C3_Witness ==
    /\ ret.by = "objectsByDocIDParallel"
    /\ Len(eg.failed) = 2
    /\ eg.failed[1].task = 2 /\ eg.failed[2].task = 1
    /\ eg.failed[1].err.kind = "unmarshal" /\ eg.failed[2].err.kind = "bucket"
    /\ tasks[1].objs # <<>>
    /\ ret.err = eg.failed[1].err

\* the buffer a call adopted last: the one its last successful read handed
\* back, the one from the pool when no read succeeded
LastAdopted(task) == IF task.back = <<>> THEN task.took ELSE task.back[Len(task.back)]

\* C18: a call of objectsByDocIDSequential that took a buffer from the pool
\* puts exactly one buffer back when it returns, on success and on a bucket
\* or decode error, and that buffer is the one the bucket handed back last;
\* every read is given the buffer adopted from the read before; a running
\* call puts nothing back, its buffer is not in the pool and no other
\* running call holds it.
C18_PoolDiscipline ==
    \A t \in DOMAIN tasks :
      LET task == tasks[t]
      IN  /\ task.took = NoBuffer => task.put = <<>> /\ task.given = <<>>
          /\ (task.took # NoBuffer /\ task.state # "run") => task.put = <<LastAdopted(task)>>
          /\ \A k \in DOMAIN task.given :
               task.given[k] = IF k = 1 THEN task.took ELSE task.back[k - 1]
          /\ (task.took # NoBuffer /\ task.state = "run") =>
               /\ task.put = <<>>
               /\ task.lsmBuf = LastAdopted(task)
               /\ task.lsmBuf \notin bufPool
               /\ \A u \in DOMAIN tasks \ {t} :
                    tasks[u].state = "run" => tasks[u].lsmBuf # task.lsmBuf

C18_Witness ==
    /\ Len(tasks) = 2
    /\ tasks[1].state = "failed" /\ tasks[1].err.kind = "unmarshal"
    /\ Len(tasks[1].back) = 2
    /\ tasks[1].took.by = "pool" /\ tasks[1].put[1].by = "bucket"
    /\ tasks[2].state = "done"
    /\ tasks[2].took = tasks[1].put[1]
    /\ tasks[2].put = <<tasks[2].took>>
    /\ bufPool = {tasks[2].took}

====
